---- MODULE Spec2Model ----
(***************************************************************************)
(* Model of scan.py: the RSN element decoder (parse_rsn), the access-point *)
(* registry (ap_data) and the alert ledger (alerts) maintained by          *)
(* packet_handler, and the whitelist built by main / load_whitelist.       *)
(*                                                                         *)
(* Representation.                                                         *)
(*  - A Python str is a sequence of tokens.  A token is the comma ",", the *)
(*    blank " ", or a run of characters that holds neither (for instance   *)
(*    "Net" or "<Hidden>"); str.split(',') and str.strip() only look at    *)
(*    commas and blanks, so they act on token sequences as on characters.  *)
(*  - A Python bytes object is a sequence of integers 0..255.              *)
(*  - None is <<>> and a present value v is <<v>> (None, Some).            *)
(*  - A Python list is an object on the heap: ap_data[b].pwr and           *)
(*    ap_data[b].channel hold references, heap maps a reference to the     *)
(*    list's contents.  dict.copy() is shallow: it copies the references.  *)
(*  - A float number of Mbps is kept in tenths of Mbps (rate * 0.5 Mbps is *)
(*    rate * 5 tenths).                                                    *)
(*  - print calls (verbose, live_alerts_only) change no state and are left *)
(*    out.                                                                 *)
(***************************************************************************)
EXTENDS Integers, Sequences, FiniteSets, TLC

VARIABLES
    ap_data,     \* scan.py:12   dict BSSID -> record
    heap,        \* the list objects the records' pwr / channel fields refer to
    alerts,      \* scan.py:17   list of alert dicts
    whitelist,   \* the set of entries main hands to packet_handler
    nframes,     \* number of frames sniff has handed to packet_handler so far
    log,         \* history: the frames handled so far, kept by SpecLog only
    rsn_in,      \* SpecRsn: the body of an RSN element (ID 48), as bytes
    rsn_out,     \* SpecRsn: what parse_rsn returned for it, None before the call
    sec_out,     \* SpecRsn: the security fields packet_handler derives from it
    mutex,       \* SpecRace: TRUE when packet_handler calls exclude each other
    calls        \* SpecRace: per thread, the beacon in hand and the position in
                 \* packet_handler

\* The variables of the decoder runs.
decoder == <<rsn_in, rsn_out, sec_out>>

\* The variables of the runs with several packet_handler calls in progress.
race == <<mutex, calls>>

\* The variables that are no state of the scanner run itself.
aux == <<log, decoder, race>>

vars == <<ap_data, heap, alerts, whitelist, nframes, aux>>

\* Number of frames one run of the model processes.
MaxFrames == 3

None == <<>>
Some(v) == <<v>>

-----------------------------------------------------------------------------
(* Python primitives used by the code *)

Min(a, b) == IF a <= b THEN a ELSE b

\* s[lo:hi] for 0 <= lo <= hi (Python clips the slice to the object).
Slice(s, lo, hi) == SubSeq(s, lo + 1, Min(hi, Len(s)))

\* max(list) of a non-empty list of numbers.
RECURSIVE SeqMax(_)
SeqMax(s) ==
    IF Len(s) = 1 THEN s[1]
    ELSE LET m == SeqMax(Tail(s)) IN IF s[1] >= m THEN s[1] ELSE m

\* str.strip(): leading and trailing blanks removed.
RECURSIVE LStrip(_)
LStrip(s) == IF s # <<>> /\ s[1] = " " THEN LStrip(Tail(s)) ELSE s

RECURSIVE RStrip(_)
RStrip(s) ==
    IF s # <<>> /\ s[Len(s)] = " " THEN RStrip(SubSeq(s, 1, Len(s) - 1)) ELSE s

Strip(s) == LStrip(RStrip(s))

\* str.split(','): the list of the parts between commas (commas + 1 parts).
RECURSIVE SplitFrom(_, _, _)
SplitFrom(s, i, cur) ==
    IF i > Len(s) THEN <<cur>>
    ELSE IF s[i] = "," THEN <<cur>> \o SplitFrom(s, i + 1, <<>>)
    ELSE SplitFrom(s, i + 1, Append(cur, s[i]))

Split(s) == SplitFrom(s, 1, <<>>)

\* struct.unpack("<H", b)[0]: defined for exactly two bytes, raises otherwise.
UnpackOk(b) == Len(b) = 2
UnpackH(b) == b[1] + 256 * b[2]

\* x & mask # 0 for a one-bit mask 2^k.
BitSet(x, mask) == (x \div mask) % 2 = 1

-----------------------------------------------------------------------------
(* load_whitelist and the whitelist set-up of main *)

\* scan.py:26  { line.strip() for line in f if line.strip() }
load_whitelist(lines) ==
    { Strip(lines[i]) : i \in { j \in 1..Len(lines) : Strip(lines[j]) # <<>> } }

\* Mutant of MainWhitelist: the argument that names no file is one entry.
MainWhitelist_NoSplit(arg, exists, lines) ==
    IF arg # None /\ arg[1] # <<>>
    THEN IF exists THEN load_whitelist(lines)
         ELSE {arg[1]}
    ELSE {}

\* scan.py:280-288.  arg is args.whitelist (None when -w is not given);
\* exists tells whether a file of that name exists; lines are its lines.
MainWhitelist(arg, exists, lines) ==
    IF arg # None /\ arg[1] # <<>>
    THEN IF exists THEN load_whitelist(lines)
         ELSE LET parts == Split(arg[1]) IN { parts[i] : i \in 1..Len(parts) }
    ELSE {}

-----------------------------------------------------------------------------
(* parse_rsn, scan.py:43-81 *)

\* The dict {} that parse_rsn returns on any failure.
EmptyDict == <<>>

\* scan.py:74  cipher_map.get(b, "Unknown")
cipher_map(b) ==
    CASE b = 1 -> "WEP-40"
      [] b = 2 -> "TKIP"
      [] b = 4 -> "CCMP"
      [] b = 5 -> "WEP-104"
      [] OTHER -> "Unknown"

\* scan.py:75  akm_map.get(b, "Unknown")
akm_map(b) ==
    CASE b = 1 -> "802.1X"
      [] b = 2 -> "PSK"
      [] OTHER -> "Unknown"

\* Mutant of parse_rsn: the version is not looked at.
parse_rsn_AnyVersion(rsn_ie) ==
    IF ~UnpackOk(Slice(rsn_ie, 0, 2)) THEN EmptyDict
    ELSE IF ~UnpackOk(Slice(rsn_ie, 6, 8)) THEN EmptyDict
    ELSE
      LET pairwise_count == UnpackH(Slice(rsn_ie, 6, 8))
          pairwise_list_length == pairwise_count * 4
          pairwise_cipher == Slice(rsn_ie, 8, 12)
          akm_count_offset == 8 + pairwise_list_length
      IN
      IF ~UnpackOk(Slice(rsn_ie, akm_count_offset, akm_count_offset + 2))
      THEN EmptyDict
      ELSE
        LET akm_count ==
                UnpackH(Slice(rsn_ie, akm_count_offset, akm_count_offset + 2))
            akm_list_length == akm_count * 4
            akm_suite ==
                Slice(rsn_ie, akm_count_offset + 2, akm_count_offset + 6)
            expected_length_without_cap ==
                akm_count_offset + 2 + akm_list_length
            rsn_capabilities ==
                IF Len(rsn_ie) >= expected_length_without_cap + 2
                THEN Some(UnpackH(Slice(rsn_ie, expected_length_without_cap,
                                        expected_length_without_cap + 2)))
                ELSE None
            pmf_capable ==
                rsn_capabilities # None /\ BitSet(rsn_capabilities[1], 64)
            pmf_required ==
                rsn_capabilities # None /\ BitSet(rsn_capabilities[1], 128)
        IN
        IF Len(pairwise_cipher) < 4 THEN EmptyDict
        ELSE IF Len(akm_suite) < 4 THEN EmptyDict
        ELSE [enc |-> "WPA2",
              cipher |-> cipher_map(pairwise_cipher[4]),
              auth |-> akm_map(akm_suite[4]),
              pmf_capable |-> pmf_capable,
              pmf_required |-> pmf_required]

\* Every step that raises inside the try block (an unpack of fewer than two
\* bytes, an index past the end of a slice) ends in "except: return {}".
parse_rsn(rsn_ie) ==
    IF ~UnpackOk(Slice(rsn_ie, 0, 2)) THEN EmptyDict
    ELSE IF UnpackH(Slice(rsn_ie, 0, 2)) # 1 THEN EmptyDict
    ELSE IF ~UnpackOk(Slice(rsn_ie, 6, 8)) THEN EmptyDict
    ELSE
      LET pairwise_count == UnpackH(Slice(rsn_ie, 6, 8))
          pairwise_list_length == pairwise_count * 4
          pairwise_cipher == Slice(rsn_ie, 8, 12)
          akm_count_offset == 8 + pairwise_list_length
      IN
      IF ~UnpackOk(Slice(rsn_ie, akm_count_offset, akm_count_offset + 2))
      THEN EmptyDict
      ELSE
        LET akm_count ==
                UnpackH(Slice(rsn_ie, akm_count_offset, akm_count_offset + 2))
            akm_list_length == akm_count * 4
            akm_suite ==
                Slice(rsn_ie, akm_count_offset + 2, akm_count_offset + 6)
            expected_length_without_cap ==
                akm_count_offset + 2 + akm_list_length
            rsn_capabilities ==
                IF Len(rsn_ie) >= expected_length_without_cap + 2
                THEN Some(UnpackH(Slice(rsn_ie, expected_length_without_cap,
                                        expected_length_without_cap + 2)))
                ELSE None
            pmf_capable ==
                rsn_capabilities # None /\ BitSet(rsn_capabilities[1], 64)
            pmf_required ==
                rsn_capabilities # None /\ BitSet(rsn_capabilities[1], 128)
        IN
        IF Len(pairwise_cipher) < 4 THEN EmptyDict
        ELSE IF Len(akm_suite) < 4 THEN EmptyDict
        ELSE [enc |-> "WPA2",
              cipher |-> cipher_map(pairwise_cipher[4]),
              auth |-> akm_map(akm_suite[4]),
              pmf_capable |-> pmf_capable,
              pmf_required |-> pmf_required]

-----------------------------------------------------------------------------
(* packet_handler, beacon branch: field extraction, scan.py:86-147 *)

\* bytes.decode(errors="ignore"): bytes that are no valid text are dropped.
InvalidByte == "\\xff"
Decode(info) == SelectSeq(info, LAMBDA t : t # InvalidByte)

\* scan.py:87-88
Ssid(pkt) ==
    LET raw_ssid == Strip(Decode(pkt.ies[1].info))
    IN IF raw_ssid # <<>> THEN raw_ssid ELSE <<"<Hidden>">>

\* scan.py:96-113  the loop over the Dot11Elt layers
RECURSIVE IELoop(_, _, _)
IELoop(ies, i, acc) ==
    IF i > Len(ies) THEN acc
    ELSE
      LET elt == ies[i] IN
      IELoop(ies, i + 1,
        CASE elt.ID = 0 -> acc
          [] elt.ID = 1 ->
               [acc EXCEPT !.supported_rates = @ \o elt.info]
          [] elt.ID = 50 ->
               [acc EXCEPT !.extended_rates = @ \o elt.info]
          [] elt.ID = 3 -> [acc EXCEPT !.channel = Some(elt.info[1])]
          [] elt.ID = 48 -> [acc EXCEPT !.rsn_ie = Some(elt.info)]
          [] OTHER -> acc)

\* scan.py:95-116  (pkt.channel_attr is what pkt[Dot11Elt].channel evaluates to)
Extract(pkt) ==
    LET got == IELoop(pkt.ies, 1,
                 [supported_rates |-> <<>>, extended_rates |-> <<>>,
                  channel |-> None, rsn_ie |-> None])
    IN IF got.channel = None
       THEN [got EXCEPT !.channel = pkt.channel_attr]
       ELSE got

\* rate * 0.5 Mbps, in tenths of Mbps
HalfMbps(rate) == rate * 5

\* scan.py:118-124   "N/A" is None
MaxBitRate(supported_rates, extended_rates) ==
    LET all_rates == supported_rates \o extended_rates
    IN IF all_rates # <<>>
       THEN Some(SeqMax([i \in 1..Len(all_rates) |-> HalfMbps(all_rates[i])]))
       ELSE None

\* dict.get(key, default)
Get(d, key, default) == IF key \in DOMAIN d THEN d[key] ELSE default

\* Mutant of Security: pmf_capable is looked at before pmf_required.
Security_CapableFirst(rsn_ie) ==
    IF rsn_ie # None /\ rsn_ie[1] # <<>>
    THEN LET rsn_info == parse_rsn(rsn_ie[1]) IN
         IF DOMAIN rsn_info # {}
         THEN [enc |-> Get(rsn_info, "enc", "WPA2"),
               cipher |-> Get(rsn_info, "cipher", "CCMP"),
               auth |-> Get(rsn_info, "auth", "PSK"),
               pmf |-> IF Get(rsn_info, "pmf_capable", FALSE) THEN "Capable"
                       ELSE IF Get(rsn_info, "pmf_required", FALSE) THEN "Required"
                       ELSE "No"]
         ELSE [enc |-> "WPA2", cipher |-> "CCMP", auth |-> "PSK", pmf |-> "No"]
    ELSE [enc |-> "OPN", cipher |-> "", auth |-> "", pmf |-> "No"]

\* Mutant of Security: an RSN element that parse_rsn cannot decode is treated
\* like an absent one.
Security_OpnOnEmpty(rsn_ie) ==
    IF rsn_ie # None /\ rsn_ie[1] # <<>> /\ DOMAIN parse_rsn(rsn_ie[1]) # {}
    THEN LET rsn_info == parse_rsn(rsn_ie[1]) IN
         [enc |-> rsn_info.enc, cipher |-> rsn_info.cipher, auth |-> rsn_info.auth,
          pmf |-> IF rsn_info.pmf_required THEN "Required"
                  ELSE IF rsn_info.pmf_capable THEN "Capable" ELSE "No"]
    ELSE [enc |-> "OPN", cipher |-> "", auth |-> "", pmf |-> "No"]

\* scan.py:91-94 and 126-147.  "if rsn_ie:" is false for None and for b"".
Security(rsn_ie) ==
    IF rsn_ie # None /\ rsn_ie[1] # <<>>
    THEN LET rsn_info == parse_rsn(rsn_ie[1]) IN
         IF DOMAIN rsn_info # {}
         THEN [enc |-> Get(rsn_info, "enc", "WPA2"),
               cipher |-> Get(rsn_info, "cipher", "CCMP"),
               auth |-> Get(rsn_info, "auth", "PSK"),
               pmf |-> IF Get(rsn_info, "pmf_required", FALSE) THEN "Required"
                       ELSE IF Get(rsn_info, "pmf_capable", FALSE) THEN "Capable"
                       ELSE "No"]
         ELSE [enc |-> "WPA2", cipher |-> "CCMP", auth |-> "PSK", pmf |-> "No"]
    ELSE [enc |-> "OPN", cipher |-> "", auth |-> "", pmf |-> "No"]

-----------------------------------------------------------------------------
(* packet_handler, beacon branch: the registry, scan.py:149-169 *)

Hidden == <<"<Hidden>">>

\* The list objects created by the dict literal of scan.py:151-163.
PwrRef(bssid) == <<bssid, "pwr">>
ChannelRef(bssid) == <<bssid, "channel">>

\* scan.py:151-163  the record of a BSSID seen for the first time
NewRecord(bssid, display_essid, mb, sec) ==
    [essid |-> display_essid, bssid |-> bssid, pwr |-> PwrRef(bssid),
     beacons |-> 1, data |-> 0, channel |-> ChannelRef(bssid), mb |-> mb,
     enc |-> sec.enc, cipher |-> sec.cipher, auth |-> sec.auth, pmf |-> sec.pmf]

\* scan.py:154 and 157  [x] if x is not None else []
NewList(opt) == IF opt # None THEN <<opt[1]>> ELSE <<>>

\* Mutant of AppendNew: the membership test is dropped.
AppendNew_NoDedup(list, opt) ==
    IF opt # None
    THEN Append(list, opt[1])
    ELSE list

\* scan.py:166-169  append x unless x is None or already in the list
AppendNew(list, opt) ==
    IF opt # None /\ \A i \in 1..Len(list) : list[i] # opt[1]
    THEN Append(list, opt[1])
    ELSE list

\* Mutant of UpsertData: a repeat beacon overwrites the essid.
UpsertData_Overwrite(ad, bssid, display_essid, mb, sec) ==
    IF bssid \notin DOMAIN ad
    THEN ad @@ (bssid :> NewRecord(bssid, display_essid, mb, sec))
    ELSE [ad EXCEPT ![bssid].beacons = @ + 1, ![bssid].essid = display_essid]

\* Mutant of UpsertData: a repeat beacon is not counted.
UpsertData_NoCount(ad, bssid, display_essid, mb, sec) ==
    IF bssid \notin DOMAIN ad
    THEN ad @@ (bssid :> NewRecord(bssid, display_essid, mb, sec))
    ELSE ad

\* scan.py:150-169, the dict after the update
UpsertData(ad, bssid, display_essid, mb, sec) ==
    IF bssid \notin DOMAIN ad
    THEN ad @@ (bssid :> NewRecord(bssid, display_essid, mb, sec))
    ELSE [ad EXCEPT ![bssid].beacons = @ + 1]

\* scan.py:150-169, the list objects after the update
UpsertHeap(hp, ad, bssid, signal_strength, channel) ==
    IF bssid \notin DOMAIN ad
    THEN hp @@ (PwrRef(bssid) :> NewList(signal_strength))
            @@ (ChannelRef(bssid) :> NewList(channel))
    ELSE [hp EXCEPT ![ad[bssid].pwr] = AppendNew(@, signal_strength),
                    ![ad[bssid].channel] = AppendNew(@, channel)]

-----------------------------------------------------------------------------
(* packet_handler, beacon branch: whitelist and alerts, scan.py:171-200 *)

\* Mutant of IsWhitelisted: the BSSID is not compared.
IsWhitelisted_EssidOnly(wl, ssid, bssid) ==
    \E entry \in wl :
        LET parts == Split(entry) IN Len(parts) = 2 /\ ssid = parts[1]

\* Mutant of IsWhitelisted: parts after the second are ignored instead of
\* making the entry malformed.
IsWhitelisted_Loose(wl, ssid, bssid) ==
    \E entry \in wl :
        LET parts == Split(entry) IN
        /\ Len(parts) >= 2
        /\ ssid = parts[1]
        /\ bssid = parts[2]

\* scan.py:172-181.  "entry_essid, entry_bssid = entry.split(',')" raises
\* ValueError unless the entry splits into exactly two parts.
IsWhitelisted(wl, ssid, bssid) ==
    \E entry \in wl :
        LET parts == Split(entry) IN
        /\ Len(parts) = 2
        /\ ssid = parts[1]
        /\ bssid = parts[2]

\* scan.py:189 and 197  any(alert.get('bssid') == bssid for alert in alerts)
HasAlert(al, bssid) == \E i \in 1..Len(al) : al[i].bssid = bssid

\* scan.py:190-191 and 198-199  ap_data[bssid].copy() plus "alert_type"
AlertData(rec, alert_type) ==
    [essid |-> rec.essid, bssid |-> rec.bssid, pwr |-> rec.pwr,
     beacons |-> rec.beacons, data |-> rec.data, channel |-> rec.channel,
     mb |-> rec.mb, enc |-> rec.enc, cipher |-> rec.cipher, auth |-> rec.auth,
     pmf |-> rec.pmf, alert_type |-> alert_type]

EvilTwin == "Evil Twin Detected"
NotWhitelisted == "Not Whitelisted"

\* Mutant of EvilTwinLoop: "known_bssid != bssid" is missing, so a record is
\* its own twin.
RECURSIVE EvilTwinLoop_Self(_, _, _, _, _)
EvilTwinLoop_Self(todo, al, ad, display_essid, bssid) ==
    IF todo = {} THEN al
    ELSE
      LET known_bssid == CHOOSE k \in todo : TRUE
          al2 == IF /\ ad[known_bssid].essid = display_essid
                    /\ ~HasAlert(al, bssid)
                 THEN Append(al, AlertData(ad[bssid], EvilTwin))
                 ELSE al
      IN EvilTwinLoop_Self(todo \ {known_bssid}, al2, ad, display_essid, bssid)

\* scan.py:187-192  the loop over ap_data.items(); todo holds the keys not yet
\* visited (the ledger reached does not depend on the order of the visits).
RECURSIVE EvilTwinLoop(_, _, _, _, _)
EvilTwinLoop(todo, al, ad, display_essid, bssid) ==
    IF todo = {} THEN al
    ELSE
      LET known_bssid == CHOOSE k \in todo : TRUE
          known_data == ad[known_bssid]
          al2 == IF /\ known_data.essid = display_essid
                    /\ known_bssid # bssid
                    /\ ~HasAlert(al, bssid)
                 THEN Append(al, AlertData(ad[bssid], EvilTwin))
                 ELSE al
      IN EvilTwinLoop(todo \ {known_bssid}, al2, ad, display_essid, bssid)

\* Mutant of EvilTwinCheck: the evil twin detection is skipped.
EvilTwinCheck_Skipped(al, ad, ssid, bssid) == al

\* Mutant of EvilTwinCheck: a twin found for a BSSID that already has an
\* entry replaces that entry by an EvilTwin entry.
EvilTwinCheck_Upgrade(al, ad, ssid, bssid) ==
    IF ssid # Hidden /\ \E k \in DOMAIN ad : k # bssid /\ ad[k].essid = ssid
    THEN Append(SelectSeq(al, LAMBDA a : a.bssid # bssid),
                AlertData(ad[bssid], EvilTwin))
    ELSE al

\* scan.py:185-192
EvilTwinCheck(al, ad, ssid, bssid) ==
    IF ssid # Hidden
    THEN EvilTwinLoop(DOMAIN ad, al, ad, ssid, bssid)
    ELSE al

\* Mutant of NotWhitelistedCheck: the ledger is not searched before appending.
NotWhitelistedCheck_NoDedup(al, ad, bssid) ==
    Append(al, AlertData(ad[bssid], NotWhitelisted))

\* Mutant of NotWhitelistedCheck: the entry is put at the head of the ledger.
NotWhitelistedCheck_Prepend(al, ad, bssid) ==
    IF ~HasAlert(al, bssid)
    THEN <<AlertData(ad[bssid], NotWhitelisted)>> \o al
    ELSE al

\* Mutant of NotWhitelistedCheck: only the first beacon of a BSSID can alert.
NotWhitelistedCheck_FirstBeaconOnly(al, ad, bssid) ==
    IF ~HasAlert(al, bssid) /\ ad[bssid].beacons = 1
    THEN Append(al, AlertData(ad[bssid], NotWhitelisted))
    ELSE al

\* scan.py:196-200
NotWhitelistedCheck(al, ad, bssid) ==
    IF ~HasAlert(al, bssid)
    THEN Append(al, AlertData(ad[bssid], NotWhitelisted))
    ELSE al

\* Mutant of AlertEngine: the NotWhitelisted check runs before the evil
\* twin check.
AlertEngine_NotWhitelistedFirst(al, ad, wl, ssid, bssid) ==
    IF ~IsWhitelisted(wl, ssid, bssid)
    THEN EvilTwinCheck(NotWhitelistedCheck(al, ad, bssid), ad, ssid, bssid)
    ELSE al

\* scan.py:171-200, the ledger after the beacon; ad is ap_data after the update
AlertEngine(al, ad, wl, ssid, bssid) ==
    IF ~IsWhitelisted(wl, ssid, bssid)
    THEN NotWhitelistedCheck(EvilTwinCheck(al, ad, ssid, bssid), ad, bssid)
    ELSE al

-----------------------------------------------------------------------------
(* The frames sniff hands to packet_handler *)

BSSIDs == { <<"A">>, <<"B">> }

\* The info of the first element (the SSID element), before decode and strip.
SsidInfos == { <<>>, <<"Net">>, <<"Cafe">>, <<" ", "Net", InvalidByte, " ">> }

\* Radiotap signal and the DS Parameter Set element (ID 3), if any.
Radios ==
    { [signal |-> None, ds |-> <<>>],
      [signal |-> Some(-45), ds |-> << [ID |-> 3, info |-> <<1>>] >>],
      [signal |-> Some(-46), ds |-> << [ID |-> 3, info |-> <<6>>] >>] }

\* An RSN element body: version 1, group CCMP, one pairwise suite CCMP, one
\* AKM suite PSK, capabilities 0x00C0.
RsnWpa2 == <<1, 0, 0, 15, 172, 4, 1, 0, 0, 15, 172, 4, 1, 0, 0, 15, 172, 2, 192, 0>>
\* The same with version 2, and the same cut inside the AKM suite.
RsnBadVersion == <<2, 0>> \o Slice(RsnWpa2, 2, 20)
RsnTruncated == Slice(RsnWpa2, 0, 16)

\* Rates elements (ID 1, ID 50), RSN element (ID 48) and a vendor element
\* (ID 221), if any.
Capabilities ==
    { <<>>,
      << [ID |-> 48, info |-> <<>>], [ID |-> 221, info |-> <<0>>] >>,
      << [ID |-> 1, info |-> <<2, 4, 11, 22>>], [ID |-> 48, info |-> RsnWpa2] >>,
      << [ID |-> 1, info |-> <<12, 18>>], [ID |-> 50, info |-> <<24, 108>>],
         [ID |-> 48, info |-> RsnBadVersion] >>,
      << [ID |-> 1, info |-> <<108>>], [ID |-> 48, info |-> RsnTruncated] >> }

Beacons ==
    { [addr2 |-> b,
       dBm_AntSignal |-> r.signal,
       channel_attr |-> None,
       ies |-> << [ID |-> 0, info |-> s] >> \o r.ds \o c] :
      b \in BSSIDs, s \in SsidInfos, r \in Radios, c \in Capabilities }

\* What main can find: the -w argument (None when not given), whether a file
\* of that name exists, and the lines of the file.
WlEnvs ==
    { [arg |-> None, exists |-> FALSE, lines |-> <<>>],
      [arg |-> Some(<<"wl.txt">>), exists |-> TRUE,
       lines |-> << <<" ", "Net", ",", "A", " ">>, <<" ">>,
                    <<"Cafe", ",", "B">> >>],
      [arg |-> Some(<<"wl.txt">>), exists |-> TRUE,
       lines |-> << <<"Net">>, <<"A">>, <<"Net", ",", "A", ",", "B">>,
                    <<"Net", ",">>, <<",", "B">>, <<"Cafe", ",", "A">> >>],
      [arg |-> Some(<<"Net", ",", "A">>), exists |-> FALSE, lines |-> <<>>] }

-----------------------------------------------------------------------------
(* The state machine *)

\* Nothing is recorded.
AuxIdle ==
    /\ log = <<>>
    /\ rsn_in = <<>> /\ rsn_out = <<>> /\ sec_out = <<>>
    /\ mutex = TRUE /\ calls = <<>>

Init ==
    /\ ap_data = <<>>
    /\ heap = <<>>
    /\ alerts = <<>>
    /\ \E env \in WlEnvs :
           whitelist = MainWhitelist(env.arg, env.exists, env.lines)
    /\ nframes = 0
    /\ AuxIdle

\* scan.py:86-169  ap_data once packet_handler has updated it for beacon pkt
DataAfterBeacon(pkt) ==
    LET got == Extract(pkt)
    IN UpsertData(ap_data, pkt.addr2, Ssid(pkt),
                  MaxBitRate(got.supported_rates, got.extended_rates),
                  Security(got.rsn_ie))

\* scan.py:150-169  the list objects once packet_handler has updated them
HeapAfterBeacon(pkt) ==
    UpsertHeap(heap, ap_data, pkt.addr2, pkt.dBm_AntSignal, Extract(pkt).channel)

\* scan.py:171-200  the ledger when packet_handler returns from beacon pkt
AlertsAfterBeacon(pkt) ==
    AlertEngine(alerts, DataAfterBeacon(pkt), whitelist, Ssid(pkt), pkt.addr2)

\* scan.py:85-206  packet_handler on a beacon frame
HandleBeacon(pkt) ==
    /\ ap_data' = DataAfterBeacon(pkt)
    /\ heap' = HeapAfterBeacon(pkt)
    /\ alerts' = AlertsAfterBeacon(pkt)

\* Mutant of HandleData: a data frame of an unknown BSSID creates a record.
HandleData_Create(bssid_data) ==
    /\ ap_data' = IF bssid_data \in DOMAIN ap_data
                  THEN [ap_data EXCEPT ![bssid_data].data = @ + 1]
                  ELSE ap_data @@ (bssid_data :>
                         [NewRecord(bssid_data, Hidden, None, Security(None))
                            EXCEPT !.beacons = 0, !.data = 1])
    /\ UNCHANGED <<heap, alerts>>

\* scan.py:208-212  packet_handler on a data frame (Dot11 type 2)
HandleData(bssid_data) ==
    /\ ap_data' = IF bssid_data \in DOMAIN ap_data
                  THEN [ap_data EXCEPT ![bssid_data].data = @ + 1]
                  ELSE ap_data
    /\ UNCHANGED <<heap, alerts>>

BeaconFrame ==
    /\ nframes < MaxFrames
    /\ \E pkt \in Beacons : HandleBeacon(pkt)
    /\ nframes' = nframes + 1
    /\ UNCHANGED <<whitelist, aux>>

DataFrame ==
    /\ nframes < MaxFrames
    /\ \E b \in BSSIDs : HandleData(b)
    /\ nframes' = nframes + 1
    /\ UNCHANGED <<whitelist, aux>>

\* scan.py:85 and 208: any other frame falls through both branches
OtherFrame ==
    /\ nframes < MaxFrames
    /\ nframes' = nframes + 1
    /\ UNCHANGED <<ap_data, heap, alerts, whitelist, aux>>

Next == BeaconFrame \/ DataFrame \/ OtherFrame

Spec == Init /\ [][Next]_vars

-----------------------------------------------------------------------------
(* Scenarios: the same handler, fed the frames a property names *)

Net == <<"Net">>
A == <<"A">>
B == <<"B">>

\* The beacons of one BSSID that advertise "Net".
NetBeacons(bssid) == { pkt \in Beacons : pkt.addr2 = bssid /\ Ssid(pkt) = Net }

\* Neither ("Net", A) nor ("Net", B) is whitelisted; a beacon of A, then a
\* beacon of B, both advertising "Net".
InitTwin ==
    /\ Init
    /\ ~IsWhitelisted(whitelist, Net, A)
    /\ ~IsWhitelisted(whitelist, Net, B)

FirstBeaconA ==
    /\ nframes = 0
    /\ \E pkt \in NetBeacons(A) : HandleBeacon(pkt)
    /\ nframes' = 1
    /\ UNCHANGED <<whitelist, aux>>

SecondBeaconB ==
    /\ nframes = 1
    /\ \E pkt \in NetBeacons(B) : HandleBeacon(pkt)
    /\ nframes' = 2
    /\ UNCHANGED <<whitelist, aux>>

NextTwin == FirstBeaconA \/ SecondBeaconB

SpecTwin == InitTwin /\ [][NextTwin]_vars

\* The whitelist file holds the one line "Net,A"; beacons of A and of B, all
\* advertising "Net", in any order.
InitNetA ==
    /\ ap_data = <<>>
    /\ heap = <<>>
    /\ alerts = <<>>
    /\ whitelist = MainWhitelist(Some(<<"wl.txt">>), TRUE, << <<"Net", ",", "A">> >>)
    /\ nframes = 0
    /\ AuxIdle

NetBeaconA ==
    /\ nframes < MaxFrames
    /\ \E pkt \in NetBeacons(A) : HandleBeacon(pkt)
    /\ nframes' = nframes + 1
    /\ UNCHANGED <<whitelist, aux>>

NetBeaconB ==
    /\ nframes < MaxFrames
    /\ \E pkt \in NetBeacons(B) : HandleBeacon(pkt)
    /\ nframes' = nframes + 1
    /\ UNCHANGED <<whitelist, aux>>

NextNetA == NetBeaconA \/ NetBeaconB

SpecNetA == InitNetA /\ [][NextNetA]_vars

\* The run of Spec under the empty whitelist, with every frame handed to
\* packet_handler recorded in log: its kind, its BSSID (addr2 of a beacon,
\* addr3 of a data frame), and a beacon's signal and channel readings.
InitLog == Init /\ whitelist = {}

LoggedBeacon ==
    /\ nframes < MaxFrames
    /\ \E pkt \in Beacons :
         /\ HandleBeacon(pkt)
         /\ log' = Append(log, [kind |-> "beacon", bssid |-> pkt.addr2,
                                signal |-> pkt.dBm_AntSignal,
                                channel |-> Extract(pkt).channel])
    /\ nframes' = nframes + 1
    /\ UNCHANGED <<whitelist, decoder, race>>

LoggedData ==
    /\ nframes < MaxFrames
    /\ \E b \in BSSIDs :
         /\ HandleData(b)
         /\ log' = Append(log, [kind |-> "data", bssid |-> b,
                                signal |-> None, channel |-> None])
    /\ nframes' = nframes + 1
    /\ UNCHANGED <<whitelist, decoder, race>>

NextLog == LoggedBeacon \/ LoggedData

SpecLog == InitLog /\ [][NextLog]_vars

\* The run of Spec when -w names a file that does not exist: a file name, and
\* a name that reads like an entry.
NoFileArgs == { <<"wl.txt">>, <<"Net", ",", "A">> }

InitNoFile ==
    /\ ap_data = <<>>
    /\ heap = <<>>
    /\ alerts = <<>>
    /\ \E arg \in NoFileArgs : whitelist = MainWhitelist(Some(arg), FALSE, <<>>)
    /\ nframes = 0
    /\ AuxIdle

SpecNoFile == InitNoFile /\ [][Next]_vars

\* The beacons with no radio reading and no element but the SSID.
PlainBeacons == { pkt \in Beacons : pkt.dBm_AntSignal = None /\ Len(pkt.ies) = 1 }

\* The run of Spec when every beacon received is such a beacon.
PlainBeaconFrame ==
    /\ nframes < MaxFrames
    /\ \E pkt \in PlainBeacons : HandleBeacon(pkt)
    /\ nframes' = nframes + 1
    /\ UNCHANGED <<whitelist, aux>>

NextPlain == PlainBeaconFrame \/ DataFrame \/ OtherFrame

SpecPlain == Init /\ [][NextPlain]_vars

-----------------------------------------------------------------------------
(* Frame ingestion by several threads: each thread runs packet_handler on
   one beacon at a time; the ledger search of scan.py:189 and 197 and the
   append that follows it (scan.py:190-192, 198-200) are separate steps of a
   call.  With mutex the calls exclude each other, as the calls sniff makes
   one after the other do. *)

Threads == {1, 2}

\* A thread that is in no call.
Idle == [pc |-> "idle", ssid |-> <<>>, bssid |-> <<>>]

InitRace ==
    /\ ap_data = <<>>
    /\ heap = <<>>
    /\ alerts = <<>>
    /\ \E env \in WlEnvs :
           whitelist = MainWhitelist(env.arg, env.exists, env.lines)
    /\ nframes = 0
    /\ log = <<>>
    /\ rsn_in = <<>> /\ rsn_out = <<>> /\ sec_out = <<>>
    /\ mutex \in BOOLEAN
    /\ calls = [t \in Threads |-> Idle]

\* Mutant of MayRun: the mutex is not taken.
MayRun_NoMutex(t) == TRUE

\* scan.py:298-302  sniff calls prn for one packet at a time: under mutex a
\* thread moves only while no other thread is inside packet_handler.
MayRun(t) ==
    mutex => \A other \in Threads \ {t} : calls[other].pc = "idle"

\* scan.py:85-181  the call up to the whitelist test: the registry is
\* updated, is_whitelisted is computed.
Enter(t) ==
    /\ nframes < MaxFrames
    /\ calls[t].pc = "idle"
    /\ MayRun(t)
    /\ \E pkt \in PlainBeacons :
         /\ ap_data' = DataAfterBeacon(pkt)
         /\ heap' = HeapAfterBeacon(pkt)
         /\ calls' = [calls EXCEPT ![t] =
                        IF IsWhitelisted(whitelist, Ssid(pkt), pkt.addr2)
                        THEN Idle
                        ELSE [pc |-> "twin_search", ssid |-> Ssid(pkt),
                              bssid |-> pkt.addr2]]
    /\ nframes' = nframes + 1
    /\ UNCHANGED <<alerts, whitelist, log, decoder, mutex>>

\* scan.py:185-189  ssid is not hidden, some other record has the essid, and
\* the ledger holds no entry for bssid
TwinSearch(t) ==
    /\ calls[t].pc = "twin_search"
    /\ MayRun(t)
    /\ calls' = [calls EXCEPT ![t].pc =
                   IF /\ calls[t].ssid # Hidden
                      /\ \E known_bssid \in DOMAIN ap_data :
                           /\ ap_data[known_bssid].essid = calls[t].ssid
                           /\ known_bssid # calls[t].bssid
                      /\ ~HasAlert(alerts, calls[t].bssid)
                   THEN "twin_append"
                   ELSE "search"]
    /\ UNCHANGED <<ap_data, heap, alerts, whitelist, nframes, log, decoder, mutex>>

\* scan.py:190-192
TwinAppend(t) ==
    /\ calls[t].pc = "twin_append"
    /\ MayRun(t)
    /\ alerts' = Append(alerts, AlertData(ap_data[calls[t].bssid], EvilTwin))
    /\ calls' = [calls EXCEPT ![t].pc = "search"]
    /\ UNCHANGED <<ap_data, heap, whitelist, nframes, log, decoder, mutex>>

\* scan.py:197  the ledger holds no entry for bssid
Search(t) ==
    /\ calls[t].pc = "search"
    /\ MayRun(t)
    /\ calls' = [calls EXCEPT ![t] =
                   IF ~HasAlert(alerts, calls[t].bssid)
                   THEN [@ EXCEPT !.pc = "append"]
                   ELSE Idle]
    /\ UNCHANGED <<ap_data, heap, alerts, whitelist, nframes, log, decoder, mutex>>

\* scan.py:198-200
AppendAlert(t) ==
    /\ calls[t].pc = "append"
    /\ MayRun(t)
    /\ alerts' = Append(alerts, AlertData(ap_data[calls[t].bssid], NotWhitelisted))
    /\ calls' = [calls EXCEPT ![t] = Idle]
    /\ UNCHANGED <<ap_data, heap, whitelist, nframes, log, decoder, mutex>>

NextRace ==
    \E t \in Threads :
        Enter(t) \/ TwinSearch(t) \/ TwinAppend(t) \/ Search(t) \/ AppendAlert(t)

SpecRace == InitRace /\ [][NextRace]_vars

-----------------------------------------------------------------------------
(* The RSN decoder on its own: parse_rsn and the security fields of
   scan.py:126-147 applied to one element body *)

\* The most suites a built element lists in either of its two suite lists.
MaxSuites == 2

\* A 16-bit field, little-endian ("<H"), and a suite selector: the OUI
\* 00-0F-AC and the suite type.
Le16(n) == <<n % 256, n \div 256>>
Suite(type) == <<0, 15, 172, type>>

\* A suite list: n suites, the first of the given type, the others fillers.
SuiteList(first, filler, n) ==
    [i \in 1..n |-> IF i = 1 THEN first ELSE filler]

RECURSIVE Suites(_)
Suites(types) ==
    IF types = <<>> THEN <<>> ELSE Suite(types[1]) \o Suites(Tail(types))

\* The suite lists the built elements carry: none, or up to MaxSuites suites.
\* Pairwise types: TKIP, CCMP and an unassigned one; fillers are TKIP.
\* AKM types: 802.1X, PSK and an unassigned one; fillers are 802.1X.
PairwiseLists ==
    {<<>>} \cup { SuiteList(t, 2, n) : t \in {2, 4, 6}, n \in 1..MaxSuites }
AkmLists ==
    {<<>>} \cup { SuiteList(t, 1, n) : t \in {1, 2, 3}, n \in 1..MaxSuites }

\* What follows the AKM list: nothing, or the RSN capabilities, alone or
\* followed by a PMKID count.
Tails ==
    { <<>>, Le16(0), Le16(64), Le16(128), Le16(192), <<64, 128>>,
      Le16(192) \o Le16(0) }

\* The element body: version, group cipher suite, pairwise count and list,
\* AKM count and list, tail.
RsnBody(version, pairwise, akm, tail) ==
    Le16(version) \o Suite(4)
    \o Le16(Len(pairwise)) \o Suites(pairwise)
    \o Le16(Len(akm)) \o Suites(akm)
    \o tail

RsnBodies ==
    { RsnBody(v, p, a, t) :
        v \in {1, 2, 257}, p \in PairwiseLists, a \in AkmLists, t \in Tails }

\* The built bodies and every body cut short of one.
RsnInputs ==
    UNION { { Slice(body, 0, n) : n \in 0..Len(body) } : body \in RsnBodies }

InitRsn ==
    /\ ap_data = <<>>
    /\ heap = <<>>
    /\ alerts = <<>>
    /\ whitelist = {}
    /\ nframes = 0
    /\ log = <<>>
    /\ rsn_in \in RsnInputs
    /\ rsn_out = None
    /\ sec_out = None
    /\ mutex = TRUE /\ calls = <<>>

\* scan.py:130  rsn_info = parse_rsn(rsn_ie)
ParseRsn ==
    /\ rsn_out = None
    /\ rsn_out' = Some(parse_rsn(rsn_in))
    /\ UNCHANGED <<ap_data, heap, alerts, whitelist, nframes, log, rsn_in, sec_out, race>>

\* scan.py:126-147  encryption, cipher, auth, pmf_str for the element
DeriveSecurity ==
    /\ sec_out = None
    /\ sec_out' = Some(Security(Some(rsn_in)))
    /\ UNCHANGED <<ap_data, heap, alerts, whitelist, nframes, log, rsn_in, rsn_out, race>>

NextRsn == ParseRsn \/ DeriveSecurity

SpecRsn == InitRsn /\ [][NextRsn]_vars

-----------------------------------------------------------------------------
(* Vocabulary of the properties *)

\* The whitelist holds the entry "essid,bssid": the exact string, which splits
\* at its one comma into the essid and the bssid.
CommaFree(str) == \A i \in 1..Len(str) : str[i] # ","
PairListed(wl, essid, bssid) ==
    /\ CommaFree(essid)
    /\ CommaFree(bssid)
    /\ (essid \o <<",">> \o bssid) \in wl

\* The positions of the ledger entries of a BSSID.
AlertsOf(al, bssid) == { i \in 1..Len(al) : al[i].bssid = bssid }

\* Some record other than bssid's has this essid.
SharedEssid(ad, essid, bssid) ==
    \E k \in DOMAIN ad : k # bssid /\ ad[k].essid = essid

-----------------------------------------------------------------------------
\* C1: the ledger holds at most one entry per BSSID, entries of both alert
\* types counted together.
C1_OneAlertPerBssid ==
    \A i, j \in 1..Len(alerts) : alerts[i].bssid = alerts[j].bssid => i = j

\* An unwhitelisted BSSID with a ledger entry has been evaluated again, while
\* another BSSID holds an entry too.
C1_Witness ==
    /\ whitelist = {}
    /\ Len(alerts) = 2
    /\ \E b \in DOMAIN ap_data : ap_data[b].beacons >= 2 /\ HasAlert(alerts, b)

\* C2 as stated: after the beacons [A, B] with the same essid "Net", neither
\* whitelisted, the ledger holds exactly one entry for B, of type EvilTwin, and
\* no entry for A.
C2_Original ==
    nframes = 2 =>
        /\ Cardinality(AlertsOf(alerts, B)) = 1
        /\ \A i \in AlertsOf(alerts, B) : alerts[i].alert_type = EvilTwin
        /\ AlertsOf(alerts, A) = {}

\* C2 amended: after the beacons [A, B] the ledger holds exactly one entry for
\* B, of type EvilTwin, and exactly one entry for A, of type NotWhitelisted,
\* appended before B's.
C2_TwinAfterFirst ==
    nframes = 2 =>
        /\ Len(alerts) = 2
        /\ alerts[1].bssid = A
        /\ alerts[1].alert_type = NotWhitelisted
        /\ alerts[2].bssid = B
        /\ alerts[2].alert_type = EvilTwin

\* Both beacons have been processed.
C2_Witness ==
    /\ nframes = 2
    /\ DOMAIN ap_data = {A, B}
    /\ ap_data[A].essid = Net
    /\ ap_data[B].essid = Net
    /\ ~PairListed(whitelist, Net, A)
    /\ ~PairListed(whitelist, Net, B)

\* C3 as stated: with A whitelisted as ("Net", A) and B advertising "Net"
\* without being whitelisted, in every order of their beacons A has no ledger
\* entry and every entry of B has type EvilTwin.
C3_Original ==
    /\ AlertsOf(alerts, A) = {}
    /\ \A i \in AlertsOf(alerts, B) : alerts[i].alert_type = EvilTwin

\* C3 amended: A never gets a ledger entry; B gets exactly one entry, at its
\* first beacon, of type EvilTwin when A's record existed at that moment and
\* of type NotWhitelisted when B was observed before A; later beacons leave
\* the ledger as it is.
C3_OnlyBAlerts ==
    [][/\ AlertsOf(alerts', A) = {}
       /\ Cardinality(AlertsOf(alerts', B)) = IF B \in DOMAIN ap_data' THEN 1 ELSE 0
       /\ (B \notin DOMAIN ap_data /\ B \in DOMAIN ap_data') =>
            \A i \in AlertsOf(alerts', B) :
                alerts'[i].alert_type =
                    IF A \in DOMAIN ap_data THEN EvilTwin ELSE NotWhitelisted
       /\ B \in DOMAIN ap_data => alerts' = alerts]_vars

\* B beaconed before A, and A has beaconed since.
C3_Witness ==
    /\ PairListed(whitelist, Net, A)
    /\ ~PairListed(whitelist, Net, B)
    /\ A \in DOMAIN ap_data
    /\ \E i \in AlertsOf(alerts, B) : alerts[i].alert_type = NotWhitelisted

\* C4: EvilTwin takes priority over NotWhitelisted.  In every reachable state,
\* processing a beacon of a BSSID that is not whitelisted, has no ledger entry
\* yet, advertises a non-hidden essid, while another BSSID's record has that
\* essid, appends exactly one entry for it, and its type is EvilTwin.
C4_EvilTwinPriority ==
    \A pkt \in Beacons :
        ( /\ ~HasAlert(alerts, pkt.addr2)
          /\ Ssid(pkt) # Hidden
          /\ SharedEssid(ap_data, Ssid(pkt), pkt.addr2)
          /\ ~PairListed(whitelist, Ssid(pkt), pkt.addr2) )
        => LET after == AlertsAfterBeacon(pkt) IN
           /\ Len(after) = Len(alerts) + 1
           /\ SubSeq(after, 1, Len(alerts)) = alerts
           /\ after[Len(after)].bssid = pkt.addr2
           /\ after[Len(after)].alert_type = EvilTwin

\* The other BSSID was registered first under the same essid, and the BSSID
\* got its entry as EvilTwin.
C4_Witness ==
    \E i \in 1..Len(alerts) :
        /\ alerts[i].alert_type = EvilTwin
        /\ ~PairListed(whitelist, alerts[i].essid, alerts[i].bssid)
        /\ SharedEssid(ap_data, alerts[i].essid, alerts[i].bssid)

\* C5: the alert status of a BSSID is terminal.  Every ledger entry stays in
\* the ledger with the same BSSID and the same alert type: no upgrade from
\* NotWhitelisted to EvilTwin, no revocation.
C5_AlertStatusTerminal ==
    [][\A i \in 1..Len(alerts) :
         /\ i <= Len(alerts')
         /\ alerts'[i].bssid = alerts[i].bssid
         /\ alerts'[i].alert_type = alerts[i].alert_type
         /\ AlertsOf(alerts', alerts[i].bssid) = {i}]_vars

\* A BSSID alerted as NotWhitelisted was evaluated again, and another BSSID
\* that shares its essid was alerted as its EvilTwin.
C5_Witness ==
    \E i, j \in 1..Len(alerts) :
        /\ alerts[i].alert_type = NotWhitelisted
        /\ alerts[j].alert_type = EvilTwin
        /\ alerts[i].essid = alerts[j].essid
        /\ ap_data[alerts[i].bssid].beacons >= 2

\* What a ledger entry shows when it is read (printed, dumped to JSON): its
\* pwr and channel lists are looked up on the heap.
EntryView(al, hp, i) ==
    [al[i] EXCEPT !.pwr = hp[al[i].pwr], !.channel = hp[al[i].channel]]

\* C6: a ledger entry is an immutable snapshot.  Every field of every entry
\* (essid, pwr, beacons, data, channel, mb, enc, cipher, auth, pmf,
\* alert_type) keeps the value it had when the entry was appended.
C6_SnapshotImmutable ==
    [][\A i \in 1..Len(alerts) :
         /\ i <= Len(alerts')
         /\ EntryView(alerts', heap', i) = EntryView(alerts, heap, i)]_vars

\* C7: a BSSID that is not whitelisted under its essid and shares its essid
\* with no other record has exactly one ledger entry, of type NotWhitelisted,
\* whatever beacons and data frames followed; when it is the only network
\* seen, that entry is the whole ledger.
C7_SingleUnknownNetwork ==
    \A b \in DOMAIN ap_data :
        ( /\ ~PairListed(whitelist, ap_data[b].essid, b)
          /\ ~SharedEssid(ap_data, ap_data[b].essid, b) )
        => /\ Cardinality(AlertsOf(alerts, b)) = 1
           /\ \A i \in AlertsOf(alerts, b) : alerts[i].alert_type = NotWhitelisted
           /\ DOMAIN ap_data = {b} => Len(alerts) = 1

\* One unknown network has sent several beacons and a data frame.
C7_Witness ==
    \E b \in BSSIDs :
        /\ DOMAIN ap_data = {b}
        /\ ~PairListed(whitelist, ap_data[b].essid, b)
        /\ ap_data[b].beacons >= 2
        /\ ap_data[b].data >= 1
        /\ Len(alerts) = 1

\* C8 as stated: processing a beacon appends nothing to the ledger if and
\* only if the whitelist holds the exact entry "essid,bssid" of the beacon.
C8_Original ==
    \A pkt \in Beacons :
        (AlertsAfterBeacon(pkt) = alerts)
            <=> PairListed(whitelist, Ssid(pkt), pkt.addr2)

\* C8 amended: processing a beacon of a BSSID that has no ledger entry yet
\* appends nothing to the ledger if and only if the whitelist holds the exact
\* entry "essid,bssid" of the beacon; an entry that matches only the essid or
\* only the BSSID, or has no comma or more than one, suppresses nothing.
C8_ExactPairSuppresses ==
    \A pkt \in Beacons :
        ~HasAlert(alerts, pkt.addr2) =>
            ( (AlertsAfterBeacon(pkt) = alerts)
                <=> PairListed(whitelist, Ssid(pkt), pkt.addr2) )

\* Under a whitelist with an essid-only entry "Net", a BSSID-only entry ",B"
\* and a two-comma entry, B was alerted for "Net" while A, listed exactly as
\* "Cafe,A", was registered without an alert.
C8_Witness ==
    /\ <<"Net">> \in whitelist
    /\ <<",", "B">> \in whitelist
    /\ <<"Net", ",", "A", ",", "B">> \in whitelist
    /\ \E i \in AlertsOf(alerts, B) : alerts[i].essid = Net
    /\ A \in DOMAIN ap_data
    /\ PairListed(whitelist, ap_data[A].essid, A)
    /\ ~HasAlert(alerts, A)

\* The beacon carries an RSN element for which parse_rsn returns {}.
FailsToDecode(pkt) ==
    LET rsn_ie == Extract(pkt).rsn_ie
    IN rsn_ie # None /\ DOMAIN parse_rsn(rsn_ie[1]) = {}

SecurityOf(rec) ==
    [enc |-> rec.enc, cipher |-> rec.cipher, auth |-> rec.auth, pmf |-> rec.pmf]

OpnDefaults == [enc |-> "OPN", cipher |-> "", auth |-> "", pmf |-> "No"]
Wpa2Defaults == [enc |-> "WPA2", cipher |-> "CCMP", auth |-> "PSK", pmf |-> "No"]

C10_FirstObservationWins ==
    [][\A b \in DOMAIN ap_data :
         /\ b \in DOMAIN ap_data'
         /\ ap_data'[b].bssid = ap_data[b].bssid
         /\ ap_data'[b].essid = ap_data[b].essid
         /\ ap_data'[b].mb = ap_data[b].mb
         /\ ap_data'[b].enc = ap_data[b].enc
         /\ ap_data'[b].cipher = ap_data[b].cipher
         /\ ap_data'[b].auth = ap_data[b].auth
         /\ ap_data'[b].pmf = ap_data[b].pmf]_vars

\* A record whose essid is whitelisted for its BSSID has a ledger entry: a
\* later beacon of the BSSID advertised another essid, and the record kept
\* the first.
C10_Witness ==
    \E b \in DOMAIN ap_data :
        /\ PairListed(whitelist, ap_data[b].essid, b)
        /\ HasAlert(alerts, b)
        /\ ap_data[b].beacons >= 2

-----------------------------------------------------------------------------
(* History vocabulary: what the recorded frames say *)

\* The readings of one field ("signal" or "channel") in the beacons of bssid,
\* in the order the beacons were handled; an absent reading is None.
RECURSIVE Readings(_, _, _)
Readings(lg, bssid, field) ==
    IF lg = <<>> THEN <<>>
    ELSE LET e == lg[Len(lg)]
             before == Readings(SubSeq(lg, 1, Len(lg) - 1), bssid, field)
         IN IF e.kind = "beacon" /\ e.bssid = bssid
            THEN Append(before, e[field])
            ELSE before

\* The distinct present values of a sequence of readings, in order of first
\* occurrence.
RECURSIVE FirstOccurrences(_)
FirstOccurrences(readings) ==
    IF readings = <<>> THEN <<>>
    ELSE LET r == readings[Len(readings)]
             before == FirstOccurrences(SubSeq(readings, 1, Len(readings) - 1))
         IN IF r = None \/ \E i \in 1..Len(before) : before[i] = r[1]
            THEN before
            ELSE Append(before, r[1])

\* C11: for every BSSID record, pwr is exactly the sequence of distinct signal
\* values present in that BSSID's beacons, in order of first occurrence (no
\* value twice, nothing for a beacon without a reading), and channel is the
\* same for the channel numbers.
C11_DistinctReadingsInOrder ==
    \A b \in DOMAIN ap_data :
        /\ heap[ap_data[b].pwr] = FirstOccurrences(Readings(log, b, "signal"))
        /\ heap[ap_data[b].channel] = FirstOccurrences(Readings(log, b, "channel"))

\* Three beacons of one BSSID: a reading, a different one, the first again.
C11_Witness ==
    /\ A \in DOMAIN ap_data
    /\ Readings(log, A, "signal") = <<Some(-45), Some(-46), Some(-45)>>
    /\ heap[ap_data[A].pwr] = <<-45, -46>>
    /\ heap[ap_data[A].channel] = <<1, 6>>

\* The frame handled by the step just taken, when a frame was handled.
Handled == log'[Len(log')]

\* C12: a data frame whose BSSID has no record creates no record and leaves
\* the registry and the ledger as they were; a data frame whose BSSID has a
\* record adds one to that record's data count and changes nothing else in
\* the registry or the ledger.
C12_DataFrameEffect ==
    [][ (log' # log /\ Handled.kind = "data") =>
          /\ alerts' = alerts
          /\ heap' = heap
          /\ DOMAIN ap_data' = DOMAIN ap_data
          /\ \A b \in DOMAIN ap_data :
               IF b = Handled.bssid
               THEN ap_data'[b] = [ap_data[b] EXCEPT !.data = ap_data[b].data + 1]
               ELSE ap_data'[b] = ap_data[b] ]_vars

\* A beacon of A, then a data frame of A, then a data frame of B, never seen.
C12_Witness ==
    /\ Len(log) = 3
    /\ log[2].kind = "data" /\ log[2].bssid = A
    /\ log[3].kind = "data" /\ log[3].bssid = B
    /\ A \in DOMAIN ap_data /\ ap_data[A].data = 1
    /\ B \notin DOMAIN ap_data
    /\ alerts # <<>>

\* The positions in the history of the beacons of bssid, and of the data
\* frames of bssid that came after its first beacon.
BeaconsOf(lg, bssid) ==
    { i \in 1..Len(lg) : lg[i].kind = "beacon" /\ lg[i].bssid = bssid }

DataFramesAfterRecord(lg, bssid) ==
    { i \in 1..Len(lg) : /\ lg[i].kind = "data" /\ lg[i].bssid = bssid
                         /\ \E j \in BeaconsOf(lg, bssid) : j < i }

C18_CountsMatchHistory ==
    \A b \in BSSIDs :
        /\ b \in DOMAIN ap_data <=> BeaconsOf(log, b) # {}
        /\ b \in DOMAIN ap_data =>
             /\ ap_data[b].beacons = Cardinality(BeaconsOf(log, b))
             /\ ap_data[b].data = Cardinality(DataFramesAfterRecord(log, b))

C18_NeverRemovedNeverDecreased ==
    \A b \in DOMAIN ap_data :
        /\ b \in DOMAIN ap_data'
        /\ ap_data'[b].beacons >= ap_data[b].beacons
        /\ ap_data'[b].data >= ap_data[b].data

\* C18: a record exists for a BSSID exactly when at least one beacon of that
\* BSSID has been handled; its beacons count is the number of beacons handled
\* for the BSSID and its data count is the number of data frames of the BSSID
\* handled after the record was created; no step removes a record or lowers
\* either count.
C18_RegistryLifecycle ==
    []C18_CountsMatchHistory /\ [][C18_NeverRemovedNeverDecreased]_vars

\* A data frame of A before any beacon of A, the first beacon of A, then
\* another data frame of A: only the second data frame is counted.
C18_Witness ==
    /\ Len(log) = 3
    /\ log[1].kind = "data" /\ log[1].bssid = A
    /\ log[2].kind = "beacon" /\ log[2].bssid = A
    /\ log[3].kind = "data" /\ log[3].bssid = A
    /\ ap_data[A].beacons = 1 /\ ap_data[A].data = 1

\* The value of the 16-bit little-endian field at offset off.
FieldAt(bytes, off) == bytes[off + 1] + 256 * bytes[off + 2]

\* The pmf the capabilities in a tail call for; a tail is empty or starts
\* with the capabilities field.
PmfFor(tail) ==
    IF tail = <<>> THEN "No"
    ELSE IF (FieldAt(tail, 0) \div 128) % 2 = 1 THEN "Required"
    ELSE IF (FieldAt(tail, 0) \div 64) % 2 = 1 THEN "Capable"
    ELSE "No"

\* C13: every well-formed RSN body with version 1, any number P >= 1 of
\* pairwise suites the first of type 4 and any number A >= 1 of AKM suites the
\* first of type 2, all of them present, decodes to enc WPA2, cipher CCMP,
\* auth PSK, and pmf Required if capabilities bit 0x0080 is set, else Capable
\* if bit 0x0040 is set, else No; No also when there are no capabilities.
C13_Wpa2CcmpPskDecoded ==
    sec_out # None =>
        \A p \in PairwiseLists, a \in AkmLists, tail \in Tails :
            (/\ p # <<>> /\ p[1] = 4
             /\ a # <<>> /\ a[1] = 2
             /\ rsn_in = RsnBody(1, p, a, tail))
            => sec_out[1] = [enc |-> "WPA2", cipher |-> "CCMP", auth |-> "PSK",
                             pmf |-> PmfFor(tail)]

\* Two pairwise suites (CCMP, TKIP), two AKM suites (PSK, 802.1X) and
\* capabilities with both PMF bits: decoded as CCMP, PSK, Required.
C13_Witness ==
    /\ rsn_in = RsnBody(1, <<4, 2>>, <<2, 1>>, Le16(192))
    /\ sec_out = Some([enc |-> "WPA2", cipher |-> "CCMP", auth |-> "PSK",
                       pmf |-> "Required"])

\* A body the decoder has to give up on: the version is not 1, or the body
\* ends before the version, the pairwise count, the first pairwise suite at
\* [8:12], the AKM count at 8+4P or the first AKM suite at 8+4P+2 is complete.
GivenUp(bytes) ==
    \/ Len(bytes) < 2
    \/ FieldAt(bytes, 0) # 1
    \/ Len(bytes) < 8
    \/ Len(bytes) < 12
    \/ Len(bytes) < 8 + 4 * FieldAt(bytes, 6) + 2
    \/ Len(bytes) < 8 + 4 * FieldAt(bytes, 6) + 6

\* C14: for a body whose version is not 1, or that is too short for the
\* version, the pairwise count, the first pairwise suite, the AKM count or the
\* first AKM suite, parse_rsn returns the empty descriptor; and whatever the
\* body, it returns (it does not raise) either the empty descriptor or one
\* with all of enc, cipher, auth and the two pmf flags.
C14_EmptyOnMalformed ==
    rsn_out # None =>
        /\ GivenUp(rsn_in) => rsn_out[1] = EmptyDict
        /\ DOMAIN rsn_out[1] \in
             { {}, {"enc", "cipher", "auth", "pmf_capable", "pmf_required"} }

\* A body of version 2 that is complete otherwise, decoded to the empty
\* descriptor.
C14_Witness ==
    /\ rsn_in = RsnBody(2, <<4>>, <<2>>, Le16(192))
    /\ rsn_out = Some(EmptyDict)

\* A body cut inside its first AKM suite, decoded to the empty descriptor.
C14_WitnessTruncated ==
    /\ rsn_in = Slice(RsnBody(1, <<4>>, <<2>>, <<>>), 0, 16)
    /\ rsn_out = Some(EmptyDict)

\* C15: when the file named by -w does not exist, no (essid, bssid) pair is
\* treated as whitelisted, and every BSSID that has sent a beacon has an
\* entry in the ledger.
C15_MissingFileFiltersNothing ==
    /\ \A pkt \in Beacons : ~IsWhitelisted(whitelist, Ssid(pkt), pkt.addr2)
    /\ \A b \in DOMAIN ap_data : \E i \in 1..Len(alerts) : alerts[i].bssid = b

\* -w Net,A names no file; A has sent a beacon as "Net" and has an entry.
C15_Witness ==
    /\ whitelist = {<<"Net">>, <<"A">>}
    /\ A \in DOMAIN ap_data /\ ap_data[A].essid = Net
    /\ \E i \in 1..Len(alerts) : alerts[i].bssid = A

\* C16: every "Evil Twin Detected" entry, at the moment it is appended, has a
\* snapshot essid that is not "<Hidden>" and that is the essid of the record
\* of at least one other BSSID, also when a BSSID sends beacons under several
\* essids.
C16_EvilTwinSharesStoredEssid ==
    [][ \A i \in (Len(alerts) + 1)..Len(alerts') :
          alerts'[i].alert_type = EvilTwin =>
            /\ alerts'[i].essid # Hidden
            /\ \E other \in DOMAIN ap_data' \ {alerts'[i].bssid} :
                 ap_data'[other].essid = alerts'[i].essid ]_vars

\* C17: in the state right after a beacon whose (essid, bssid) pair is not
\* whitelisted has been handled, the ledger holds an entry for the beacon's
\* BSSID, appended for this beacon or there before.  The beacon is any of
\* Beacons, handled in any state the run has reached.
C17_AlertedAfterUnlistedBeacon ==
    \A pkt \in Beacons :
        ~PairListed(whitelist, Ssid(pkt), pkt.addr2) =>
            LET after == AlertsAfterBeacon(pkt) IN
            \E i \in 1..Len(after) : after[i].bssid = pkt.addr2

\* B is whitelisted as "Cafe" only; it has sent two beacons, the first of
\* them hidden, and has its one entry.
C17_Witness ==
    /\ PairListed(whitelist, <<"Cafe">>, B)
    /\ B \in DOMAIN ap_data
    /\ ap_data[B].essid = Hidden
    /\ ap_data[B].beacons = 2
    /\ Cardinality(AlertsOf(alerts, B)) = 1

\* The (bssid, alert_type) pair of a ledger entry.
Key(entry) == <<entry.bssid, entry.alert_type>>

C20_EntriesHaveRecords ==
    \A i \in 1..Len(alerts) : alerts[i].bssid \in DOMAIN ap_data

C20_AppendOnly ==
    /\ Len(alerts') >= Len(alerts)
    /\ \A i \in 1..Len(alerts) : Key(alerts'[i]) = Key(alerts[i])

\* C20: the BSSID of every ledger entry is a key of the registry, and the
\* ledger only grows at its end: the sequence of (bssid, alert_type) pairs of
\* a state is a prefix of that of every later state.
C20_LedgerConsistent ==
    []C20_EntriesHaveRecords /\ [][C20_AppendOnly]_vars

\* Three frames have been handled; A's entry came first, B's evil-twin entry
\* was appended behind it.
C20_Witness ==
    /\ nframes = 3
    /\ Len(alerts) = 2
    /\ Key(alerts[1]) = <<A, NotWhitelisted>>
    /\ Key(alerts[2]) = <<B, EvilTwin>>

\* C19: when every packet_handler call runs to its end before another one
\* starts, no state has two ledger entries for one BSSID; when two calls for
\* beacons of the same BSSID may interleave between the ledger search and the
\* append, such a state is reachable (C19_Witness).
C19_SerializedCallsAlertOnce ==
    mutex => \A b \in BSSIDs : Cardinality(AlertsOf(alerts, b)) <= 1

\* Without the mutex: two entries for one BSSID.
C19_Witness ==
    /\ ~mutex
    /\ \E b \in BSSIDs : Cardinality(AlertsOf(alerts, b)) = 2

\* With the mutex, three beacons handled: both BSSIDs alerted, once each.
C19_WitnessSerialized ==
    /\ mutex
    /\ nframes = 3
    /\ \A t \in Threads : calls[t].pc = "idle"
    /\ \A b \in BSSIDs : Cardinality(AlertsOf(alerts, b)) = 1

=============================================================================
